---- MODULE Spec2Model ----
(***************************************************************************)
(* A model of fs.c, a FUSE file system core over a block device.          *)
(*                                                                         *)
(* The device is an array of BLOCK_NUM blocks; a block is an array of      *)
(* 32-bit little-endian words (every on-disk structure of fs.c is made of  *)
(* 4-byte fields except the bitmaps and the entry names, which are read    *)
(* bytewise through Byte).  The geometry is scaled down: BLOCK_SIZE is 256 *)
(* bytes and INODE_COUNT is 10, which keeps sizeof(inode_t) = 76 and       *)
(* sizeof(dir_entry_t) = 32 as the compiler lays them out.  As with the    *)
(* real geometry, BLOCK_SIZE is no multiple of sizeof(inode_t), so the     *)
(* last inodes lie behind the blocks that fs_mount counts as inode table,  *)
(* and a negative inode number, divided as a size_t, names a block far     *)
(* beyond the device.  Words and clock values stay below 2^31.  A          *)
(* disk_read or disk_write fails for a block outside 0 .. BLOCK_NUM-1 and  *)
(* for a block of the set bad, which is empty unless a specification says  *)
(* otherwise.                                                              *)
(***************************************************************************)
EXTENDS Integers, Sequences, FiniteSets, TLC

\* ------------------------------------------------------------------------
\* Geometry
\* ------------------------------------------------------------------------
BLOCK_SIZE == 256
BLOCK_NUM == 12
INODE_COUNT == 10
MAX_FILENAME_LEN == 24
DIRECT_POINTERS == 12
INDIRECT_POINTERS == 2
\* sizeof(inode_t): 5 + 12 + 2 fields of type uint32_t
INODE_SIZE == 76
\* sizeof(dir_entry_t): char name[26], 2 bytes of padding, uint32_t inode_num
DIR_ENTRY_SIZE == 32
WORD_SIZE == 4

WORDS == BLOCK_SIZE \div WORD_SIZE
INODE_WORDS == INODE_SIZE \div WORD_SIZE
ENTRY_WORDS == DIR_ENTRY_SIZE \div WORD_SIZE
INODES_PER_BLOCK == BLOCK_SIZE \div INODE_SIZE
ENTRIES_PER_BLOCK == BLOCK_SIZE \div DIR_ENTRY_SIZE
POINTERS_PER_BLOCK == BLOCK_SIZE \div WORD_SIZE
MAX_FILE_SIZE == (DIRECT_POINTERS + INDIRECT_POINTERS * POINTERS_PER_BLOCK) * BLOCK_SIZE

SUPERBLOCK_BLOCK == 0
INODE_BITMAP_BLOCK == 1
DATA_BITMAP_START_BLOCK == 2
INODE_TABLE_START_BLOCK == 4

\* S_IFDIR | 0755 and S_IFREG | 0644
DIRMODE == 16877
REGMODE == 33188
\* (m & S_IFMT) == S_IFDIR, with S_IFMT = 0170000 and S_IFDIR = 0040000
S_ISDIR(m) == (m \div 4096) % 16 = 4

ENOENT == 2
ENOSPC == 28
\* the two error numbers of <errno.h> that fs.c never names
EIO == 5
ENAMETOOLONG == 36

ceil_div(a, b) == (a + b - 1) \div b

\* ------------------------------------------------------------------------
\* Bounds of the exploration
\* ------------------------------------------------------------------------
\* the clock runs over 1..MaxTime
MaxTime == 2
\* filler accepts at most this many names before it reports a full buffer
MaxCap == 4

\* ------------------------------------------------------------------------
\* Blocks, bytes and words
\* ------------------------------------------------------------------------
WordIdx == 0 .. (WORDS - 1)
BlockIdx == 0 .. (BLOCK_NUM - 1)

ZeroBlock == [w \in WordIdx |-> 0]

Pow2(n) == 2 ^ n
Pow256(n) == 256 ^ n

\* byte k of a block (little-endian words)
Byte(block, k) == (block[k \div WORD_SIZE] \div Pow256(k % WORD_SIZE)) % 256

\* (bitmap[i / 8] >> (i % 8)) & 1
Bit(block, i) == (Byte(block, i \div 8) \div Pow2(i % 8)) % 2

\* bitmap[i / 8] |= (1 << (i % 8))
SetBit(block, i) ==
    IF Bit(block, i) = 1 THEN block
    ELSE [block EXCEPT ![(i \div 8) \div WORD_SIZE] =
              @ + Pow2(i % 8) * Pow256((i \div 8) % WORD_SIZE)]

\* bitmap[i / 8] &= ~(1 << (i % 8))
ClearBit(block, i) ==
    IF Bit(block, i) = 0 THEN block
    ELSE [block EXCEPT ![(i \div 8) \div WORD_SIZE] =
              @ - Pow2(i % 8) * Pow256((i \div 8) % WORD_SIZE)]

\* the blocks of the device whose disk_read and disk_write fail
VARIABLE bad

\* disk_read(b, ..) = 0 and disk_write(b, ..) = 0: the device adapter serves the
\* blocks 0 .. BLOCK_NUM-1 that are not bad and fails otherwise
DiskOk(b) == b \in BlockIdx /\ b \notin bad

\* the device after disk_write(b, block), whose result the caller ignores
DiskWrite(d, b, block) == IF DiskOk(b) THEN [d EXCEPT ![b] = block] ELSE d

\* ------------------------------------------------------------------------
\* Inode store
\* ------------------------------------------------------------------------
DirectIdx == 0 .. (DIRECT_POINTERS - 1)
IndirectIdx == 0 .. (INDIRECT_POINTERS - 1)

\* memset(&inode, 0, sizeof(inode_t))
ZeroInode ==
    [size |-> 0, atime |-> 0, mtime |-> 0, ctime |-> 0, mode |-> 0,
     direct |-> [k \in DirectIdx |-> 0],
     indirect |-> [k \in IndirectIdx |-> 0]]

\* word w of struct inode, in declaration order
InodeWord(inode, w) ==
    CASE w = 0 -> inode.size
      [] w = 1 -> inode.atime
      [] w = 2 -> inode.mtime
      [] w = 3 -> inode.ctime
      [] w = 4 -> inode.mode
      [] w \in 5 .. (4 + DIRECT_POINTERS) -> inode.direct[w - 5]
      [] OTHER -> inode.indirect[w - 5 - DIRECT_POINTERS]

\* memcpy(inode, block + offset_in_block * INODE_SIZE, INODE_SIZE)
UnpackInode(block, off) ==
    [size |-> block[off], atime |-> block[off + 1], mtime |-> block[off + 2],
     ctime |-> block[off + 3], mode |-> block[off + 4],
     direct |-> [k \in DirectIdx |-> block[off + 5 + k]],
     indirect |-> [k \in IndirectIdx |-> block[off + 5 + DIRECT_POINTERS + k]]]

\* memcpy(block + offset_in_block * INODE_SIZE, inode, INODE_SIZE)
PackInode(block, off, inode) ==
    [w \in WordIdx |->
        IF w >= off /\ w < off + INODE_WORDS THEN InodeWord(inode, w - off)
        ELSE block[w]]

\* INODES_PER_BLOCK has type size_t, so inode_num is converted to a 64-bit
\* unsigned value before it is divided; the value is kept as four 16-bit limbs,
\* most significant first
Limb == 65536

\* (size_t)n for an int n
SizeT(n) ==
    IF n >= 0 THEN <<0, 0, n \div Limb, n % Limb>>
    ELSE LET mh == (-n) \div Limb
             ml == (-n) % Limb
         IN  IF ml = 0 THEN <<Limb - 1, Limb - 1, Limb - mh, 0>>
             ELSE <<Limb - 1, Limb - 1, Limb - 1 - mh, Limb - ml>>

RECURSIVE LongDiv(_, _, _)
\* limbs / k and limbs % k with carry r: [q, r]
LongDiv(limbs, k, r) ==
    IF limbs = <<>> THEN [q |-> <<>>, r |-> r]
    ELSE LET cur == r * Limb + Head(limbs)
             rest == LongDiv(Tail(limbs), k, cur % k)
         IN  [q |-> <<cur \div k>> \o rest.q, r |-> rest.r]

\* (int)(a + limbs): the low 32 bits of the sum, read as two's complement
ToInt(a, limbs) ==
    LET lo == limbs[4] + a
        hi == (limbs[3] + (lo \div Limb)) % Limb
    IN  IF hi >= Limb \div 2 THEN (hi - Limb) * Limb + (lo % Limb)
        ELSE hi * Limb + (lo % Limb)

\* int block_num = INODE_TABLE_START_BLOCK + (inode_num / INODES_PER_BLOCK)
InodeBlock(n) ==
    ToInt(INODE_TABLE_START_BLOCK, LongDiv(SizeT(n), INODES_PER_BLOCK, 0).q)
\* int offset_in_block = inode_num % INODES_PER_BLOCK, as a word offset
InodeOffset(n) == LongDiv(SizeT(n), INODES_PER_BLOCK, 0).r * INODE_WORDS

\* read_inode without the check of inode_num against INODE_COUNT
read_inode_nocheck(d, n) ==
    IF ~DiskOk(InodeBlock(n)) THEN [rc |-> -1, inode |-> ZeroInode]
    ELSE [rc |-> 0, inode |-> UnpackInode(d[InodeBlock(n)], InodeOffset(n))]

\* read_inode: [rc, inode]; the caller's inode is left alone on failure
read_inode(d, n) ==
    IF n >= INODE_COUNT THEN [rc |-> -1, inode |-> ZeroInode]
    ELSE IF ~DiskOk(InodeBlock(n)) THEN [rc |-> -1, inode |-> ZeroInode]
    ELSE [rc |-> 0, inode |-> UnpackInode(d[InodeBlock(n)], InodeOffset(n))]

\* write_inode: [rc, disk]
write_inode(d, n, inode) ==
    IF n >= INODE_COUNT THEN [rc |-> -1, disk |-> d]
    ELSE IF ~DiskOk(InodeBlock(n)) THEN [rc |-> -1, disk |-> d]
    ELSE [rc |-> 0,
          disk |-> [d EXCEPT ![InodeBlock(n)] =
                       PackInode(@, InodeOffset(n), inode)]]

\* update_timestamp(inode, access, modify, change) at clock value t
update_timestamp(inode, access, modify, change, t) ==
    [inode EXCEPT !.atime = IF access THEN t ELSE @,
                  !.mtime = IF modify THEN t ELSE @,
                  !.ctime = IF change THEN t ELSE @]

\* ------------------------------------------------------------------------
\* Bitmap allocator
\* ------------------------------------------------------------------------
RECURSIVE FirstClear(_, _, _)
\* the scan of alloc_inode: the least i in from .. n-1 whose bit is clear, or -1
FirstClear(bitmap, from, n) ==
    IF from >= n THEN -1
    ELSE IF Bit(bitmap, from) = 0 THEN from
    ELSE FirstClear(bitmap, from + 1, n)

\* alloc_inode that returns the index without writing the bitmap back
alloc_inode_nopersist(d, s) ==
    LET i == FirstClear(d[INODE_BITMAP_BLOCK], 0, s.num_inodes) IN
    IF i = -1 THEN [rc |-> -ENOSPC, disk |-> d]
    ELSE [rc |-> i, disk |-> d]

\* alloc_inode whose scan runs one bit beyond num_inodes
alloc_inode_pastend(d, s) ==
    LET i == FirstClear(d[INODE_BITMAP_BLOCK], 0, s.num_inodes + 1) IN
    IF i = -1 THEN [rc |-> -ENOSPC, disk |-> d]
    ELSE [rc |-> i,
          disk |-> DiskWrite(d, INODE_BITMAP_BLOCK,
                             SetBit(d[INODE_BITMAP_BLOCK], i))]

\* alloc_inode: [rc, disk]; rc is the index or -ENOSPC.  The bitmap block is
\* taken to be readable: were the unchecked disk_read to fail, the scan would
\* run over an uninitialised buffer.
alloc_inode(d, s) ==
    LET i == FirstClear(d[INODE_BITMAP_BLOCK], 0, s.num_inodes) IN
    IF i = -1 THEN [rc |-> -ENOSPC, disk |-> d]
    ELSE [rc |-> i,
          disk |-> DiskWrite(d, INODE_BITMAP_BLOCK,
                             SetBit(d[INODE_BITMAP_BLOCK], i))]

\* free_inode that clears the bit of the next inode
free_inode_neighbour(d, n) ==
    DiskWrite(d, INODE_BITMAP_BLOCK, ClearBit(d[INODE_BITMAP_BLOCK], n + 1))

\* free_inode: the disk afterwards
free_inode(d, n) ==
    DiskWrite(d, INODE_BITMAP_BLOCK, ClearBit(d[INODE_BITMAP_BLOCK], n))

\* ------------------------------------------------------------------------
\* Superblock
\* ------------------------------------------------------------------------
\* struct superblock sb in a freshly started process (zero-initialised)
ZeroSb ==
    [num_inodes |-> 0, num_data_blocks |-> 0, inode_table_blocks |-> 0,
     data_bitmap_blocks |-> 0, data_blocks_start |-> 0]

\* the layout fs_mount(1) computes
FormatSb ==
    LET itb == ceil_div(INODE_COUNT * INODE_SIZE, BLOCK_SIZE) IN
    [num_inodes |-> INODE_COUNT,
     num_data_blocks |-> BLOCK_NUM - (INODE_TABLE_START_BLOCK + itb),
     inode_table_blocks |-> itb,
     data_bitmap_blocks |-> 2,
     data_blocks_start |-> INODE_TABLE_START_BLOCK + itb]

\* memset(block, 0, BLOCK_SIZE); memcpy(block, &sb, sizeof(sb))
SbBlock(s) ==
    [w \in WordIdx |->
        CASE w = 0 -> s.num_inodes
          [] w = 1 -> s.num_data_blocks
          [] w = 2 -> s.inode_table_blocks
          [] w = 3 -> s.data_bitmap_blocks
          [] w = 4 -> s.data_blocks_start
          [] OTHER -> 0]

\* LoadSb with two fields unmarshalled in the wrong order
LoadSb_swapped(d) ==
    LET b == d[SUPERBLOCK_BLOCK] IN
    [num_inodes |-> b[0], num_data_blocks |-> b[2], inode_table_blocks |-> b[1],
     data_bitmap_blocks |-> b[3], data_blocks_start |-> b[4]]

\* disk_read(SUPERBLOCK_BLOCK, &sb): the five fields of sb
LoadSb(d) ==
    LET b == d[SUPERBLOCK_BLOCK] IN
    [num_inodes |-> b[0], num_data_blocks |-> b[1], inode_table_blocks |-> b[2],
     data_bitmap_blocks |-> b[3], data_blocks_start |-> b[4]]

\* fs_mount whose zeroing loop starts at the inode table and skips the bitmaps
fs_mount_keepbitmaps(d, s, init_flag, t) ==
    IF init_flag # 0 THEN
        LET s1 == FormatSb
            d1 == DiskWrite(d, SUPERBLOCK_BLOCK, SbBlock(s1))
            d2 == [b \in BlockIdx |->
                      IF b >= INODE_TABLE_START_BLOCK /\ b < s1.data_blocks_start
                         /\ DiskOk(b)
                      THEN ZeroBlock ELSE d1[b]]
            a == alloc_inode(d2, s1)
            root_inode == update_timestamp(
                              [ZeroInode EXCEPT !.mode = DIRMODE, !.size = 0],
                              TRUE, TRUE, TRUE, t)
        IN  IF a.rc # 0 THEN [rc |-> -1, sb |-> s1, disk |-> a.disk]
            ELSE [rc |-> 0, sb |-> s1,
                  disk |-> write_inode(a.disk, a.rc, root_inode).disk]
    ELSE [rc |-> 0, sb |-> IF DiskOk(SUPERBLOCK_BLOCK) THEN LoadSb(d) ELSE s,
          disk |-> d]

\* fs_mount(init_flag) at clock value t, entered with sb = s: [rc, sb, disk];
\* no result of a disk_read or disk_write is looked at
fs_mount(d, s, init_flag, t) ==
    IF init_flag # 0 THEN
        LET s1 == FormatSb
            d1 == DiskWrite(d, SUPERBLOCK_BLOCK, SbBlock(s1))
            d2 == [b \in BlockIdx |->
                      IF b >= INODE_BITMAP_BLOCK /\ b < s1.data_blocks_start
                         /\ DiskOk(b)
                      THEN ZeroBlock ELSE d1[b]]
            a == alloc_inode(d2, s1)
            root_inode == update_timestamp(
                              [ZeroInode EXCEPT !.mode = DIRMODE, !.size = 0],
                              TRUE, TRUE, TRUE, t)
        IN  IF a.rc # 0 THEN [rc |-> -1, sb |-> s1, disk |-> a.disk]
            ELSE [rc |-> 0, sb |-> s1,
                  disk |-> write_inode(a.disk, a.rc, root_inode).disk]
    ELSE [rc |-> 0, sb |-> IF DiskOk(SUPERBLOCK_BLOCK) THEN LoadSb(d) ELSE s,
          disk |-> d]

\* ------------------------------------------------------------------------
\* Names and paths: C strings are sequences of character codes
\* ------------------------------------------------------------------------
\* '/'
Slash == 47
\* "." and ".."
Dot == <<46>>
DotDot == <<46, 46>>

RECURSIVE CStr(_, _)
\* the NUL-terminated string that starts at byte k of a block buffer
CStr(block, k) ==
    IF k >= BLOCK_SIZE \/ Byte(block, k) = 0 THEN <<>>
    ELSE <<Byte(block, k)>> \o CStr(block, k + 1)

RECURSIVE Tokens_keepempty(_, _)
\* a tokenizer that keeps the empty components between and after slashes
Tokens_keepempty(s, cur) ==
    IF s = <<>> THEN <<cur>>
    ELSE IF Head(s) = Slash THEN <<cur>> \o Tokens_keepempty(Tail(s), <<>>)
    ELSE Tokens_keepempty(Tail(s), Append(cur, Head(s)))

RECURSIVE Tokens(_, _)
\* strtok_r(s, "/", ..) repeated to exhaustion: the nonempty components of s
Tokens(s, cur) ==
    IF s = <<>> THEN (IF cur = <<>> THEN <<>> ELSE <<cur>>)
    ELSE IF Head(s) = Slash
         THEN (IF cur = <<>> THEN Tokens(Tail(s), <<>>)
               ELSE <<cur>> \o Tokens(Tail(s), <<>>))
    ELSE Tokens(Tail(s), Append(cur, Head(s)))

\* ------------------------------------------------------------------------
\* Block mapper (read side) and directory layer
\* ------------------------------------------------------------------------
\* word of dir_entry_t that holds inode_num
EntryInoWord(j) == j * ENTRY_WORDS + (DIR_ENTRY_SIZE - WORD_SIZE) \div WORD_SIZE
\* byte at which dir_entry_t.name of slot j starts
EntryNameByte(j) == j * DIR_ENTRY_SIZE

\* get_directory_block_addr with the group and the offset taken for each other
get_directory_block_addr_swapped(d, inode, block_index) ==
    IF block_index < DIRECT_POINTERS THEN inode.direct[block_index]
    ELSE
        LET k == block_index - DIRECT_POINTERS
            indirect_group == k % POINTERS_PER_BLOCK
            indirect_offset == k \div POINTERS_PER_BLOCK
        IN  IF indirect_group < 2 THEN
                LET indirect_block_addr == inode.indirect[indirect_group] IN
                IF indirect_block_addr = 0 THEN 0
                ELSE IF ~DiskOk(indirect_block_addr) THEN 0
                ELSE d[indirect_block_addr][indirect_offset]
            ELSE 0

\* get_directory_block_addr(dir_inode, block_index)
get_directory_block_addr(d, inode, block_index) ==
    IF block_index < DIRECT_POINTERS THEN inode.direct[block_index]
    ELSE
        LET k == block_index - DIRECT_POINTERS
            indirect_group == k \div POINTERS_PER_BLOCK
            indirect_offset == k % POINTERS_PER_BLOCK
        IN  IF indirect_group < 2 THEN
                LET indirect_block_addr == inode.indirect[indirect_group] IN
                IF indirect_block_addr = 0 THEN 0
                ELSE IF ~DiskOk(indirect_block_addr) THEN 0
                ELSE d[indirect_block_addr][indirect_offset]
            ELSE 0

RECURSIVE FindInSlots_tombstone(_, _, _)
\* an inner loop that compares the name only and so matches tombstones too
FindInSlots_tombstone(block, name, j) ==
    IF j >= ENTRIES_PER_BLOCK THEN -1
    ELSE IF CStr(block, EntryNameByte(j)) = name THEN block[EntryInoWord(j)]
    ELSE FindInSlots_tombstone(block, name, j + 1)

RECURSIVE FindInSlots(_, _, _)
\* the inner loop of find_entry_in_directory: inode_num of the first slot j.. that
\* is live and carries the name, or -1
FindInSlots(block, name, j) ==
    IF j >= ENTRIES_PER_BLOCK THEN -1
    ELSE IF block[EntryInoWord(j)] # 0 /\ CStr(block, EntryNameByte(j)) = name
         THEN block[EntryInoWord(j)]
    ELSE FindInSlots(block, name, j + 1)

RECURSIVE FindInBlocks(_, _, _, _, _)
\* the outer loop of find_entry_in_directory from logical block i
FindInBlocks(d, inode, name, i, num_blocks_to_check) ==
    IF i >= num_blocks_to_check THEN [rc |-> -1, ino |-> 0]
    ELSE
        LET block_addr == get_directory_block_addr(d, inode, i) IN
        IF block_addr = 0 \/ ~DiskOk(block_addr)
        THEN FindInBlocks(d, inode, name, i + 1, num_blocks_to_check)
        ELSE LET r == FindInSlots(d[block_addr], name, 0) IN
             IF r # -1 THEN [rc |-> 0, ino |-> r]
             ELSE FindInBlocks(d, inode, name, i + 1, num_blocks_to_check)

\* find_entry_in_directory(dir_inode, name, &inode_index): [rc, ino]
find_entry_in_directory(d, inode, name) ==
    IF ~S_ISDIR(inode.mode) THEN [rc |-> -1, ino |-> 0]
    ELSE FindInBlocks(d, inode, name, 0, ceil_div(inode.size, BLOCK_SIZE))

\* ------------------------------------------------------------------------
\* Path resolver
\* ------------------------------------------------------------------------
RECURSIVE Walk(_, _, _)
\* the while loop of find_inode_by_path over the remaining tokens
Walk(d, tokens, current_ino) ==
    IF tokens = <<>> THEN [rc |-> 0, ino |-> current_ino]
    ELSE
        LET r == read_inode(d, current_ino) IN
        IF r.rc # 0 THEN [rc |-> -1, ino |-> 0]
        ELSE LET f == find_entry_in_directory(d, r.inode, Head(tokens)) IN
             IF f.rc # 0 THEN [rc |-> -1, ino |-> 0]
             ELSE Walk(d, Tail(tokens), f.ino)

\* find_inode_by_path(path, &inode_index): [rc, ino]
find_inode_by_path(d, path) ==
    IF path = <<>> \/ Head(path) # Slash THEN [rc |-> -1, ino |-> 0]
    ELSE IF path = <<Slash>> THEN [rc |-> 0, ino |-> 0]
    ELSE Walk(d, Tokens(Tail(path), <<>>), 0)

\* ------------------------------------------------------------------------
\* Operation layer
\* ------------------------------------------------------------------------
\* struct stat before the call fills it
NoAttr ==
    [st_mode |-> 0, st_nlink |-> 0, st_size |-> 0, st_atim |-> 0, st_mtim |-> 0,
     st_ctim |-> 0, st_blksize |-> 0, st_blocks |-> 0]

\* fs_getattr that stamps the inode as an access, the way fs_readdir does
fs_getattr_touch(d, path) ==
    LET f == find_inode_by_path(d, path) IN
    IF f.rc # 0 THEN [rc |-> -ENOENT, attr |-> NoAttr, disk |-> d]
    ELSE
        LET r == read_inode(d, f.ino) IN
        IF r.rc # 0 THEN [rc |-> -ENOENT, attr |-> NoAttr, disk |-> d]
        ELSE [rc |-> 0,
              disk |-> write_inode(d, f.ino,
                           update_timestamp(r.inode, TRUE, FALSE, FALSE,
                                            r.inode.atime + 1)).disk,
              attr |-> [st_mode |-> r.inode.mode,
                        st_nlink |-> 1,
                        st_size |-> r.inode.size,
                        st_atim |-> r.inode.atime,
                        st_mtim |-> r.inode.mtime,
                        st_ctim |-> r.inode.ctime,
                        st_blksize |-> BLOCK_SIZE,
                        st_blocks |-> (r.inode.size + 511) \div 512]]

\* fs_getattr(path, attr): [rc, attr, disk]
fs_getattr(d, path) ==
    LET f == find_inode_by_path(d, path) IN
    IF f.rc # 0 THEN [rc |-> -ENOENT, attr |-> NoAttr, disk |-> d]
    ELSE
        LET r == read_inode(d, f.ino) IN
        IF r.rc # 0 THEN [rc |-> -ENOENT, attr |-> NoAttr, disk |-> d]
        ELSE [rc |-> 0, disk |-> d,
              attr |-> [st_mode |-> r.inode.mode,
                        st_nlink |-> 1,
                        st_size |-> r.inode.size,
                        st_atim |-> r.inode.atime,
                        st_mtim |-> r.inode.mtime,
                        st_ctim |-> r.inode.ctime,
                        st_blksize |-> BLOCK_SIZE,
                        st_blocks |-> (r.inode.size + 511) \div 512]]

\* what the host's filler returns on its call-th call when its buffer holds cap
\* names: 0, or 1 once the buffer is full
Filler(call, cap) == IF call > cap THEN 1 ELSE 0

RECURSIVE ReaddirSlots(_, _, _, _)
\* the inner loop of fs_readdir from slot j; out is the names passed to filler so
\* far: [out, full]
ReaddirSlots(block, j, out, cap) ==
    IF j >= ENTRIES_PER_BLOCK THEN [out |-> out, full |-> FALSE]
    ELSE IF block[EntryInoWord(j)] # 0 THEN
        LET out2 == Append(out, CStr(block, EntryNameByte(j))) IN
        IF Filler(Len(out2), cap) # 0 THEN [out |-> out2, full |-> TRUE]
        ELSE ReaddirSlots(block, j + 1, out2, cap)
    ELSE ReaddirSlots(block, j + 1, out, cap)

RECURSIVE ReaddirBlocks(_, _, _, _, _, _)
\* the outer loop of fs_readdir from logical block i: [out, full]
ReaddirBlocks(d, inode, i, num_blocks_to_check, out, cap) ==
    IF i >= num_blocks_to_check THEN [out |-> out, full |-> FALSE]
    ELSE
        LET block_addr == get_directory_block_addr(d, inode, i) IN
        IF block_addr = 0 \/ ~DiskOk(block_addr)
        THEN ReaddirBlocks(d, inode, i + 1, num_blocks_to_check, out, cap)
        ELSE LET r == ReaddirSlots(d[block_addr], 0, out, cap) IN
             IF r.full THEN r
             ELSE ReaddirBlocks(d, inode, i + 1, num_blocks_to_check, r.out, cap)

\* fs_readdir that stamps a zeroed inode instead of the one it read
fs_readdir_wipe(d, path, cap, t) ==
    LET f == find_inode_by_path(d, path) IN
    IF f.rc # 0 THEN [rc |-> -ENOENT, out |-> <<>>, full |-> FALSE, disk |-> d]
    ELSE
        LET r == read_inode(d, f.ino) IN
        IF r.rc # 0 THEN [rc |-> -ENOENT, out |-> <<>>, full |-> FALSE, disk |-> d]
        ELSE IF ~S_ISDIR(r.inode.mode)
        THEN [rc |-> -ENOENT, out |-> <<>>, full |-> FALSE, disk |-> d]
        ELSE
            LET l == ReaddirBlocks(d, r.inode, 0, ceil_div(r.inode.size, BLOCK_SIZE),
                                   <<Dot, DotDot>>, cap)
            IN  IF l.full THEN [rc |-> 0, out |-> l.out, full |-> TRUE, disk |-> d]
                ELSE [rc |-> 0, out |-> l.out, full |-> FALSE,
                      disk |-> write_inode(d, f.ino,
                                   update_timestamp(ZeroInode, TRUE, FALSE, FALSE, t)).disk]

\* fs_readdir that forgets the ".." entry
fs_readdir_nodotdot(d, path, cap, t) ==
    LET f == find_inode_by_path(d, path) IN
    IF f.rc # 0 THEN [rc |-> -ENOENT, out |-> <<>>, full |-> FALSE, disk |-> d]
    ELSE
        LET r == read_inode(d, f.ino) IN
        IF r.rc # 0 THEN [rc |-> -ENOENT, out |-> <<>>, full |-> FALSE, disk |-> d]
        ELSE IF ~S_ISDIR(r.inode.mode)
        THEN [rc |-> -ENOENT, out |-> <<>>, full |-> FALSE, disk |-> d]
        ELSE
            LET l == ReaddirBlocks(d, r.inode, 0, ceil_div(r.inode.size, BLOCK_SIZE),
                                   <<Dot>>, cap)
            IN  IF l.full THEN [rc |-> 0, out |-> l.out, full |-> TRUE, disk |-> d]
                ELSE [rc |-> 0, out |-> l.out, full |-> FALSE,
                      disk |-> write_inode(d, f.ino,
                                   update_timestamp(r.inode, TRUE, FALSE, FALSE, t)).disk]

\* fs_readdir(path, buffer, filler, ..) at clock value t: [rc, out, full, disk]
fs_readdir(d, path, cap, t) ==
    LET f == find_inode_by_path(d, path) IN
    IF f.rc # 0 THEN [rc |-> -ENOENT, out |-> <<>>, full |-> FALSE, disk |-> d]
    ELSE
        LET r == read_inode(d, f.ino) IN
        IF r.rc # 0 THEN [rc |-> -ENOENT, out |-> <<>>, full |-> FALSE, disk |-> d]
        ELSE IF ~S_ISDIR(r.inode.mode)
        THEN [rc |-> -ENOENT, out |-> <<>>, full |-> FALSE, disk |-> d]
        ELSE
            LET l == ReaddirBlocks(d, r.inode, 0, ceil_div(r.inode.size, BLOCK_SIZE),
                                   <<Dot, DotDot>>, cap)
            IN  IF l.full THEN [rc |-> 0, out |-> l.out, full |-> TRUE, disk |-> d]
                ELSE [rc |-> 0, out |-> l.out, full |-> FALSE,
                      disk |-> write_inode(d, f.ino,
                                   update_timestamp(r.inode, TRUE, FALSE, FALSE, t)).disk]

\* struct statvfs before the call fills it
NoStat ==
    [f_bsize |-> -1, f_blocks |-> -1, f_bfree |-> -1, f_bavail |-> -1,
     f_files |-> -1, f_ffree |-> -1, f_favail |-> -1, f_namemax |-> -1]

\* fs_statfs(path, stat): [rc, stat, disk]
fs_statfs(d, s, path) ==
    [rc |-> 0, disk |-> d,
     stat |-> [f_bsize |-> 0, f_blocks |-> 0, f_bfree |-> 0, f_bavail |-> 0,
               f_files |-> 0, f_ffree |-> 0, f_favail |-> 0, f_namemax |-> 0]]

\* fs_read(path, buffer, size, offset, fi): [rc, buffer, disk]; buffer is the
\* caller's
fs_read(d, path, buffer, size, offset) == [rc |-> 0, buffer |-> buffer, disk |-> d]

\* fs_write(path, buffer, size, offset, fi): [rc, disk]
fs_write(d, path, buffer, size, offset) == [rc |-> 0, disk |-> d]

\* the operations below are bodies that log the call and return 0: [rc, disk]
fs_mknod(d, path) == [rc |-> 0, disk |-> d]
fs_mkdir(d, path) == [rc |-> 0, disk |-> d]
fs_unlink(d, path) == [rc |-> 0, disk |-> d]
fs_rmdir(d, path) == [rc |-> 0, disk |-> d]
fs_rename(d, oldpath, newpath) == [rc |-> 0, disk |-> d]
fs_truncate(d, path, size) == [rc |-> 0, disk |-> d]
fs_utimens(d, path) == [rc |-> 0, disk |-> d]
fs_open(d, path) == [rc |-> 0, disk |-> d]
fs_release(d, path) == [rc |-> 0, disk |-> d]
fs_opendir(d, path) == [rc |-> 0, disk |-> d]
fs_releasedir(d, path) == [rc |-> 0, disk |-> d]

\* ------------------------------------------------------------------------
\* Device images a process can be started on
\* ------------------------------------------------------------------------
\* byte i of the NUL-padded name field
NameByte(name, i) == IF i < Len(name) THEN name[i + 1] ELSE 0
\* word k of the name field of a directory entry
NameWord(name, k) ==
    NameByte(name, 4 * k) + 256 * NameByte(name, 4 * k + 1)
    + 65536 * NameByte(name, 4 * k + 2) + 16777216 * NameByte(name, 4 * k + 3)

\* a block with slot j holding the entry (name, ino)
PutEntry(block, j, name, ino) ==
    [w \in WordIdx |->
        IF w = EntryInoWord(j) THEN ino
        ELSE IF w >= j * ENTRY_WORDS /\ w < EntryInoWord(j)
             THEN NameWord(name, w - j * ENTRY_WORDS)
        ELSE block[w]]

\* a device of zero blocks, as a new backing file is
ZeroDisk == [b \in BlockIdx |-> ZeroBlock]

\* a device whose every byte is 0x7f: no structure of the file system is valid
GarbageDisk == [b \in BlockIdx |-> [w \in WordIdx |-> 2139062143]]

\* inode n of the image d replaced
PutInode(d, n, inode) ==
    [d EXCEPT ![InodeBlock(n)] = PackInode(@, InodeOffset(n), inode)]

\* a name of MAX_FILENAME_LEN characters, and one that is a character longer
Name24 == [i \in 1 .. MAX_FILENAME_LEN |-> 98]
Name25 == [i \in 1 .. (MAX_FILENAME_LEN + 1) |-> 99]

\* A device that holds a tree in the layout of fs_mount(1):
\*   /        inode 0, directory of 4 slots in block 8: "a", a tombstone, "d" and
\*            the name of 24 characters (inode 1)
\*   /a       inode 1, regular file of 600 bytes, direct[0] = 9, indirect[0] = 10;
\*            slot 1 of the index block 10 holds 9
\*   /d       inode 2, directory of 1 slot in block 11: "f" (inode 1); the two
\*            slots after it, beyond the directory's size, still hold "z" -> 1
\*            and "z" -> 2
TreeDisk ==
    LET root == [ZeroInode EXCEPT !.mode = DIRMODE, !.size = 4 * DIR_ENTRY_SIZE,
                                  !.direct[0] = 8]
        filea == [ZeroInode EXCEPT !.mode = REGMODE, !.size = 600,
                                   !.direct[0] = 9, !.indirect[0] = 10]
        dird == [ZeroInode EXCEPT !.mode = DIRMODE, !.size = DIR_ENTRY_SIZE,
                                  !.direct[0] = 11]
        rootdir == PutEntry(PutEntry(PutEntry(PutEntry(ZeroBlock, 0, <<97>>, 1),
                                              1, <<116>>, 0), 2, <<100>>, 2),
                            3, Name24, 1)
        ddir == PutEntry(PutEntry(PutEntry(ZeroBlock, 0, <<102>>, 1),
                                  1, <<122>>, 1), 2, <<122>>, 2)
        base == [b \in BlockIdx |->
                    CASE b = SUPERBLOCK_BLOCK -> SbBlock(FormatSb)
                      [] b = INODE_BITMAP_BLOCK ->
                             SetBit(SetBit(SetBit(ZeroBlock, 0), 1), 2)
                      [] b = DATA_BITMAP_START_BLOCK ->
                             SetBit(SetBit(SetBit(SetBit(ZeroBlock, 1), 2), 3), 4)
                      [] b = 8 -> rootdir
                      [] b = 9 -> [w \in WordIdx |-> IF w < 2 THEN 101 ELSE 0]
                      [] b = 10 -> [w \in WordIdx |-> IF w = 1 THEN 9 ELSE 0]
                      [] b = 11 -> ddir
                      [] OTHER -> ZeroBlock]
    IN  PutInode(PutInode(PutInode(base, 0, root), 1, filea), 2, dird)

Images == [zero |-> ZeroDisk, garbage |-> GarbageDisk, tree |-> TreeDisk]

\* the paths the host passes: "/", "/a", "/d", "/d/f", "/n", "/t"
Paths == { <<47>>, <<47, 97>>, <<47, 100>>, <<47, 100, 47, 102>>, <<47, 110>>,
           <<47, 116>> }

\* the paths the host passes to the operations that never look at their path:
\* "/a", "/n"
SomePaths == { <<47, 97>>, <<47, 110>> }

\* the buffers the host writes: "hello"
Bufs == { <<104, 101, 108, 108, 111>> }
\* the offsets the host reads and writes at
Offsets == {0, 3}
\* the destinations the host renames to: "/n", "/d/n"
NewPaths == { <<47, 110>>, <<47, 100, 47, 110>> }
\* the sizes the host truncates to
Sizes == {0}

\* ------------------------------------------------------------------------
\* State
\* ------------------------------------------------------------------------
VARIABLES
    disk,       \* the block device: block number -> word index -> word
    sb,         \* struct superblock sb of the running process
    pc,         \* "down": no process; "up": fs_mount returned 0, the host calls in
    now,        \* what clock_gettime(CLOCK_REALTIME) returns, in seconds
    img,        \* which image the device held at the start
    fmt,        \* whether fs_mount(1) has formatted the device, and the sb it computed
    call,       \* the last call: [op, path, size, offset, cap]
    ret,        \* what it returned
    attr,       \* struct stat filled by the last fs_getattr
    emitted,    \* the names the last fs_readdir passed to filler, in order
    full,       \* whether the last fs_readdir stopped on a full filler buffer
    statv,      \* struct statvfs filled by the last fs_statfs
    rbuf,       \* the caller's buffer after the last fs_read
    wbuf,       \* the buffer of the last fs_write
    afterWrite, \* the last call is an fs_read that directly followed an fs_write
                \* of the same path, size and offset
    fresh,      \* the last call directly followed an fs_mount(1) that returned 0
    ibuf,       \* the caller's inode_t after the last read_inode or write_inode
    found,      \* *inode_index after the last lookup
    held        \* the indices alloc_inode has returned since the last format and
                \* free_inode has not been called on since, oldest first

vars == <<bad, disk, sb, pc, now, img, fmt, call, ret, attr, emitted, full, statv,
          rbuf, wbuf, afterWrite, fresh, ibuf, found, held>>

\* n is an inode number and idx a logical block index, for the calls that take one
NoCall ==
    [op |-> "none", path |-> <<>>, size |-> 0, offset |-> 0, cap |-> 0,
     n |-> 0, idx |-> 0]
Call(op, path) ==
    [op |-> op, path |-> path, size |-> 0, offset |-> 0, cap |-> 0,
     n |-> 0, idx |-> 0]

\* found when no lookup has stored an inode number
NoIno == -1

\* the state after construction over one of the images, with the failing blocks
\* drawn from bads
InitOver(images, bads) ==
    /\ img \in images
    /\ bad \in bads
    /\ disk = Images[img]
    /\ sb = ZeroSb
    /\ pc = "down"
    /\ now = 1
    /\ fmt = [done |-> FALSE, sb |-> ZeroSb]
    /\ call = NoCall
    /\ ret = 0
    /\ attr = NoAttr
    /\ emitted = <<>>
    /\ full = FALSE
    /\ statv = NoStat
    /\ rbuf = <<>>
    /\ wbuf = <<>>
    /\ afterWrite = FALSE
    /\ fresh = FALSE
    /\ ibuf = ZeroInode
    /\ found = NoIno
    /\ held = <<>>

\* every block of the device works
Init == InitOver(DOMAIN Images, {{}})

\* the out-parameters of the calls that are not the last call are forgotten
Results(a, e, f, s, r) ==
    /\ attr' = a
    /\ emitted' = e
    /\ full' = f
    /\ statv' = s
    /\ rbuf' = r
    /\ afterWrite' = FALSE
    /\ ibuf' = ZeroInode
    /\ found' = NoIno
NoResults == Results(NoAttr, <<>>, FALSE, NoStat, <<>>)

\* whether the call being made directly follows a format
Fresh == call.op = "mount_format" /\ ret = 0

\* ------------------------------------------------------------------------
\* Steps
\* ------------------------------------------------------------------------
\* the wall clock advances between calls
Tick ==
    /\ now < MaxTime
    /\ now' = now + 1
    /\ UNCHANGED <<bad, held, disk, sb, pc, img, fmt, call, ret, attr, emitted, full,
                   statv, rbuf, wbuf, afterWrite, fresh, ibuf, found>>

\* main with init_flag = 1: fs_mount(1)
MountFormat ==
    /\ pc = "down"
    /\ LET r == fs_mount(disk, sb, 1, now) IN
        /\ disk' = r.disk
        /\ sb' = r.sb
        /\ ret' = r.rc
        /\ pc' = IF r.rc = 0 THEN "up" ELSE "down"
        /\ fmt' = IF r.rc = 0 THEN [done |-> TRUE, sb |-> r.sb] ELSE fmt
    /\ call' = Call("mount_format", <<>>)
    /\ fresh' = Fresh
    /\ NoResults
    /\ wbuf' = <<>>
    /\ held' = <<>>
    /\ UNCHANGED <<bad, now, img>>

\* main with --noinit: fs_mount(0).  disk_read stores BLOCK_SIZE bytes at &sb, which
\* is sizeof(sb) bytes long: the five fields are loaded and the bytes behind sb are
\* overwritten; the process goes on ...
MountLoad ==
    /\ pc = "down"
    /\ LET r == fs_mount(disk, sb, 0, now) IN
        /\ disk' = r.disk
        /\ sb' = r.sb
        /\ ret' = r.rc
        /\ pc' = IF r.rc = 0 THEN "up" ELSE "down"
    /\ call' = Call("mount_load", <<>>)
    /\ fresh' = Fresh
    /\ NoResults
    /\ wbuf' = <<>>
    /\ UNCHANGED <<bad, held, now, img, fmt>>

\* ... or the store behind sb faults and the process dies inside fs_mount(0)
MountLoadFault ==
    /\ pc = "down"
    /\ DiskOk(SUPERBLOCK_BLOCK)
    /\ sb' = ZeroSb
    /\ pc' = "down"
    /\ ret' = 0
    /\ call' = Call("mount_load_fault", <<>>)
    /\ fresh' = Fresh
    /\ NoResults
    /\ wbuf' = <<>>
    /\ UNCHANGED <<bad, held, disk, now, img, fmt>>

\* fuse_main returns, fs_finalize(0), the process exits
Finalize ==
    /\ pc = "up"
    /\ sb' = ZeroSb
    /\ pc' = "down"
    /\ ret' = 0
    /\ call' = Call("finalize", <<>>)
    /\ fresh' = Fresh
    /\ NoResults
    /\ wbuf' = <<>>
    /\ UNCHANGED <<bad, held, disk, now, img, fmt>>

Getattr(path) ==
    /\ pc = "up"
    /\ LET r == fs_getattr(disk, path) IN
        /\ disk' = r.disk
        /\ ret' = r.rc
        /\ Results(r.attr, <<>>, FALSE, NoStat, <<>>)
    /\ call' = Call("getattr", path)
    /\ fresh' = Fresh
    /\ wbuf' = <<>>
    /\ UNCHANGED <<bad, held, sb, pc, now, img, fmt>>

Readdir(path, cap) ==
    /\ pc = "up"
    /\ LET r == fs_readdir(disk, path, cap, now) IN
        /\ disk' = r.disk
        /\ ret' = r.rc
        /\ Results(NoAttr, r.out, r.full, NoStat, <<>>)
    /\ call' = [Call("readdir", path) EXCEPT !.cap = cap]
    /\ fresh' = Fresh
    /\ wbuf' = <<>>
    /\ UNCHANGED <<bad, held, sb, pc, now, img, fmt>>

Statfs(path) ==
    /\ pc = "up"
    /\ LET r == fs_statfs(disk, sb, path) IN
        /\ disk' = r.disk
        /\ ret' = r.rc
        /\ Results(NoAttr, <<>>, FALSE, r.stat, <<>>)
    /\ call' = Call("statfs", path)
    /\ fresh' = Fresh
    /\ wbuf' = <<>>
    /\ UNCHANGED <<bad, held, sb, pc, now, img, fmt>>

Write(path, buffer, offset) ==
    /\ pc = "up"
    /\ LET r == fs_write(disk, path, buffer, Len(buffer), offset) IN
        /\ disk' = r.disk
        /\ ret' = r.rc
    /\ NoResults
    /\ call' = [Call("write", path) EXCEPT !.size = Len(buffer), !.offset = offset]
    /\ fresh' = Fresh
    /\ wbuf' = buffer
    /\ UNCHANGED <<bad, held, sb, pc, now, img, fmt>>

\* the caller hands in a zeroed buffer of size bytes
Read(path, size, offset) ==
    /\ pc = "up"
    /\ LET r == fs_read(disk, path, [i \in 1 .. size |-> 0], size, offset)
           follows == /\ call.op = "write"
                      /\ call.path = path
                      /\ call.size = size
                      /\ call.offset = offset
       IN
        /\ disk' = r.disk
        /\ ret' = r.rc
        /\ attr' = NoAttr
        /\ emitted' = <<>>
        /\ full' = FALSE
        /\ statv' = NoStat
        /\ rbuf' = r.buffer
        /\ afterWrite' = follows
        /\ wbuf' = IF follows THEN wbuf ELSE <<>>
        /\ ibuf' = ZeroInode
        /\ found' = NoIno
    /\ call' = [Call("read", path) EXCEPT !.size = size, !.offset = offset]
    /\ fresh' = Fresh
    /\ UNCHANGED <<bad, held, sb, pc, now, img, fmt>>

\* a call of one of the operations that return [rc, disk]
Plain(op, path, r) ==
    /\ pc = "up"
    /\ disk' = r.disk
    /\ ret' = r.rc
    /\ NoResults
    /\ call' = Call(op, path)
    /\ fresh' = Fresh
    /\ wbuf' = <<>>
    /\ UNCHANGED <<bad, held, sb, pc, now, img, fmt>>

Mknod(path) == Plain("mknod", path, fs_mknod(disk, path))
Mkdir(path) == Plain("mkdir", path, fs_mkdir(disk, path))
Unlink(path) == Plain("unlink", path, fs_unlink(disk, path))
Rmdir(path) == Plain("rmdir", path, fs_rmdir(disk, path))
Rename(oldpath, newpath) == Plain("rename", oldpath, fs_rename(disk, oldpath, newpath))
Truncate(path, size) == Plain("truncate", path, fs_truncate(disk, path, size))
Utimens(path) == Plain("utimens", path, fs_utimens(disk, path))
Open(path) == Plain("open", path, fs_open(disk, path))
Release(path) == Plain("release", path, fs_release(disk, path))
Opendir(path) == Plain("opendir", path, fs_opendir(disk, path))
Releasedir(path) == Plain("releasedir", path, fs_releasedir(disk, path))

Next ==
    \/ Tick
    \/ MountFormat
    \/ MountLoad
    \/ MountLoadFault
    \/ Finalize
    \/ \E path \in Paths : Getattr(path)
    \/ \E path \in Paths, cap \in 0 .. MaxCap : Readdir(path, cap)
    \/ \E path \in SomePaths : Statfs(path)
    \/ \E path \in SomePaths, buffer \in Bufs, offset \in Offsets :
           Write(path, buffer, offset)
    \/ \E path \in SomePaths, buffer \in Bufs, offset \in Offsets :
           Read(path, Len(buffer), offset)
    \/ \E path \in SomePaths : Mknod(path)
    \/ \E path \in SomePaths : Mkdir(path)
    \/ \E path \in SomePaths : Unlink(path)
    \/ \E path \in SomePaths : Rmdir(path)
    \/ \E oldpath \in SomePaths, newpath \in NewPaths : Rename(oldpath, newpath)
    \/ \E path \in SomePaths, size \in Sizes : Truncate(path, size)
    \/ \E path \in SomePaths : Utimens(path)
    \/ \E path \in SomePaths : Open(path)
    \/ \E path \in SomePaths : Release(path)
    \/ \E path \in SomePaths : Opendir(path)
    \/ \E path \in SomePaths : Releasedir(path)

Spec == Init /\ [][Next]_vars

\* ------------------------------------------------------------------------
\* The same program over a device with a failing block
\* ------------------------------------------------------------------------
\* the superblock fails, or the first block of the inode table does
BadSets == { {SUPERBLOCK_BLOCK}, {INODE_TABLE_START_BLOCK} }

InitIO == InitOver(DOMAIN Images, BadSets)

NextIO ==
    \/ MountFormat
    \/ MountLoad
    \/ MountLoadFault
    \/ Finalize
    \/ \E path \in Paths : Getattr(path)
    \/ \E path \in Paths, cap \in 0 .. MaxCap : Readdir(path, cap)

SpecIO == InitIO /\ [][NextIO]_vars

\* ------------------------------------------------------------------------
\* The lookup helpers, called one at a time on a mounted device
\* ------------------------------------------------------------------------
\* Paths, and: "/" + Name24, "/" + Name25, "/d/" + Name25 + "/f", "//d//f/",
\* "/d/f/", "/a/f", "/d/z", "//", "d"
LookupPaths ==
    Paths \cup
    { <<Slash>> \o Name24, <<Slash>> \o Name25,
      <<47, 100, 47>> \o Name25 \o <<47, 102>>,
      <<47, 47, 100, 47, 47, 102, 47>>, <<47, 100, 47, 102, 47>>,
      <<47, 97, 47, 102>>, <<47, 100, 47, 122>>, <<47, 47>>, <<100>> }

\* "a", "t", "d", "f", "z", "n" and Name24
Names == { <<97>>, <<116>>, <<100>>, <<102>>, <<122>>, <<110>>, Name24 }

\* the inodes whose blocks are mapped or searched
SomeInodes == {0, 1, 2}

\* logical block indices around the ends of the direct pointers and of the two
\* index blocks
BlockIndices ==
    { 0, 1, DIRECT_POINTERS - 1, DIRECT_POINTERS, DIRECT_POINTERS + 1,
      DIRECT_POINTERS + POINTERS_PER_BLOCK - 1, DIRECT_POINTERS + POINTERS_PER_BLOCK,
      DIRECT_POINTERS + 2 * POINTERS_PER_BLOCK - 1,
      DIRECT_POINTERS + 2 * POINTERS_PER_BLOCK,
      DIRECT_POINTERS + 2 * POINTERS_PER_BLOCK + 1 }

\* the frame of a helper that only reads
Helper(c, r, f) ==
    /\ pc = "up"
    /\ call' = c
    /\ ret' = r
    /\ found' = f
    /\ fresh' = Fresh
    /\ UNCHANGED <<bad, held, disk, sb, pc, now, img, fmt, attr, emitted, full, statv,
                   rbuf, wbuf, afterWrite, ibuf>>

\* find_inode_by_path(path, &inode_index), inode_index not set before
FindInodeByPath(path) ==
    /\ pc = "up"
    /\ LET r == find_inode_by_path(disk, path) IN
        Helper(Call("find_inode_by_path", path), r.rc,
               IF r.rc = 0 THEN r.ino ELSE NoIno)

\* find_entry_in_directory(&inode, name, &inode_index) on inode n as read_inode
\* delivers it
FindEntryInDirectory(n, name) ==
    LET i == read_inode(disk, n) IN
    /\ i.rc = 0
    /\ LET r == find_entry_in_directory(disk, i.inode, name) IN
        Helper([Call("find_entry_in_directory", name) EXCEPT !.n = n], r.rc,
               IF r.rc = 0 THEN r.ino ELSE NoIno)

\* get_directory_block_addr(&inode, block_index) on inode n as read_inode
\* delivers it
GetDirectoryBlockAddr(n, block_index) ==
    LET i == read_inode(disk, n) IN
    /\ i.rc = 0
    /\ Helper([Call("get_directory_block_addr", <<>>)
                   EXCEPT !.n = n, !.idx = block_index],
              get_directory_block_addr(disk, i.inode, block_index), NoIno)

NextLookup ==
    \/ MountFormat
    \/ MountLoad
    \/ Finalize
    \/ \E path \in LookupPaths : Getattr(path)
    \/ \E path \in LookupPaths : FindInodeByPath(path)
    \/ \E n \in SomeInodes, name \in Names : FindEntryInDirectory(n, name)
    \/ \E n \in SomeInodes, block_index \in BlockIndices :
           GetDirectoryBlockAddr(n, block_index)

SpecLookup == Init /\ [][NextLookup]_vars

\* ------------------------------------------------------------------------
\* The inode allocator, called one at a time on a mounted device
\* ------------------------------------------------------------------------
\* the inode numbers that are freed
FreeNums == {1, 2}

\* the frame of a helper that may write the device
Internal(c, r, d, i, h) ==
    /\ pc = "up"
    /\ call' = c
    /\ ret' = r
    /\ disk' = d
    /\ ibuf' = i
    /\ held' = h
    /\ fresh' = Fresh
    /\ UNCHANGED <<bad, sb, pc, now, img, fmt, attr, emitted, full, statv, rbuf,
                   wbuf, afterWrite, found>>

\* alloc_inode(); sb.num_inodes bits lie within the one bitmap block that is read
AllocInode ==
    /\ sb.num_inodes <= 8 * BLOCK_SIZE
    /\ LET a == alloc_inode(disk, sb) IN
        Internal(Call("alloc_inode", <<>>), a.rc, a.disk, ibuf,
                 IF a.rc >= 0 THEN Append(held, a.rc) ELSE held)

\* free_inode(n), which returns nothing
FreeInode(n) ==
    /\ pc = "up"
    /\ Internal([Call("free_inode", <<>>) EXCEPT !.n = n], 0, free_inode(disk, n),
                ibuf, SelectSeq(held, LAMBDA i : i # n))

NextAlloc ==
    \/ MountFormat
    \/ MountLoad
    \/ Finalize
    \/ AllocInode
    \/ \E n \in FreeNums : FreeInode(n)

SpecAlloc == Init /\ [][NextAlloc]_vars

\* ------------------------------------------------------------------------
\* The inode store, called one at a time on a mounted device
\* ------------------------------------------------------------------------
\* what the caller's inode_t holds before read_inode is called
CallerInode == [ZeroInode EXCEPT !.size = 1, !.mode = REGMODE]

\* the inodes that are written: between them they set the first and the last
\* word of struct inode
NewInodes ==
    { [ZeroInode EXCEPT !.size = 5, !.mtime = 1, !.mode = REGMODE, !.direct[0] = 9],
      [ZeroInode EXCEPT !.size = DIR_ENTRY_SIZE, !.mode = DIRMODE,
                        !.direct[DIRECT_POINTERS - 1] = 8,
                        !.indirect[INDIRECT_POINTERS - 1] = 10] }

\* inode numbers below, within and beyond 0 .. INODE_COUNT-1
ReadNums == { -65537, -2, -1, 0, 1, 2, INODE_COUNT - 1, INODE_COUNT,
              INODE_COUNT + 1, 3 * INODE_COUNT }
WriteNums == { -65537, -1, 1, INODE_COUNT - 1, INODE_COUNT }

\* read_inode(n, &inode)
ReadInode(n) ==
    /\ pc = "up"
    /\ LET r == read_inode(disk, n) IN
        Internal([Call("read_inode", <<>>) EXCEPT !.n = n], r.rc, disk,
                 IF r.rc = 0 THEN r.inode ELSE CallerInode, held)

\* write_inode(n, &x)
WriteInode(n, x) ==
    /\ pc = "up"
    /\ LET r == write_inode(disk, n, x) IN
        Internal([Call("write_inode", <<>>) EXCEPT !.n = n], r.rc, r.disk, x,
                 held)

NextInode ==
    \/ MountFormat
    \/ MountLoad
    \/ Finalize
    \/ \E n \in ReadNums : ReadInode(n)
    \/ \E n \in WriteNums, x \in NewInodes : WriteInode(n, x)

SpecInode == Init /\ [][NextInode]_vars

\* ------------------------------------------------------------------------
\* Properties
\* ------------------------------------------------------------------------
\* the root inode as the device holds it
RootOnDisk == UnpackInode(disk[INODE_TABLE_START_BLOCK], 0)
\* the data bitmap blocks
DataBitmapBlocks == DATA_BITMAP_START_BLOCK .. (INODE_TABLE_START_BLOCK - 1)
\* the bits of one bitmap block
BitIdx == 0 .. (8 * BLOCK_SIZE - 1)

\* C1: when fs_mount(1) has returned, whatever the device held, bit 0 of the inode
\* bitmap is set, every other bit of the inode bitmap and every bit of the data
\* bitmap is clear, and inode 0 is a directory (DIRMODE) of size 0 whose 12 direct
\* and 2 indirect pointers are all 0.
C1_FormatState ==
    call.op = "mount_format" =>
        /\ Bit(disk[INODE_BITMAP_BLOCK], 0) = 1
        /\ \A i \in BitIdx \ {0} : Bit(disk[INODE_BITMAP_BLOCK], i) = 0
        /\ \A b \in DataBitmapBlocks : \A i \in BitIdx : Bit(disk[b], i) = 0
        /\ RootOnDisk.mode = DIRMODE
        /\ RootOnDisk.size = 0
        /\ \A k \in DirectIdx : RootOnDisk.direct[k] = 0
        /\ \A k \in IndirectIdx : RootOnDisk.indirect[k] = 0

\* a format of the device whose every byte was 0x7f has returned
C1_Witness ==
    /\ call.op = "mount_format"
    /\ img = "garbage"
    /\ pc = "up"
    /\ disk[INODE_BITMAP_BLOCK][0] = 1

\* C2: the call that directly follows a format mount, if it is fs_readdir("/"),
\* returns 0 and passes filler exactly "." and ".." in that order; if it is
\* fs_getattr("/"), it returns 0 with a directory mode and size 0.
C2_FreshRoot ==
    /\ (fresh /\ call.op = "readdir" /\ call.path = <<Slash>>) =>
           (ret = 0 /\ emitted = <<Dot, DotDot>>)
    /\ (fresh /\ call.op = "getattr" /\ call.path = <<Slash>>) =>
           (ret = 0 /\ S_ISDIR(attr.st_mode) /\ attr.st_size = 0)

\* fs_readdir("/") right after formatting the device that held the tree
C2_Witness ==
    /\ fresh
    /\ call.op = "readdir"
    /\ call.path = <<Slash>>
    /\ img = "tree"
    /\ emitted = <<Dot, DotDot>>

\* C3: fs_mount(0) on a device that fs_mount(1) formatted leaves the device as it
\* is (root inode and bitmaps included) and loads into sb the five fields the
\* format computed.
C3_LoadPreserves ==
    [][call'.op = "mount_load" =>
          (disk' = disk /\ (fmt.done => (ret' = 0 /\ sb' = fmt.sb)))]_vars

\* a load has returned on the formerly garbage device that was formatted before
C3_Witness ==
    /\ call.op = "mount_load"
    /\ img = "garbage"
    /\ fmt.done
    /\ pc = "up"
    /\ sb = fmt.sb
    /\ sb.num_inodes = INODE_COUNT

\* C8: fs_getattr changes no block of the device, whether the path resolves or not.
C8_GetattrReadOnly == [][call'.op = "getattr" => disk' = disk]_vars

\* fs_getattr has succeeded on the file /a of the tree, and has failed on a path
\* that does not resolve
C8_Witness ==
    /\ call.op = "getattr"
    /\ img = "tree"
    /\ ~fmt.done
    /\ ret = 0
    /\ attr.st_mode = REGMODE

\* (m & S_IFMT) == S_IFREG, with S_IFREG = 0100000
S_ISREG(m) == (m \div 4096) % 16 = 8
\* whether the path resolves on device d, and the inode it resolves to
Resolves(d, path) == find_inode_by_path(d, path).rc = 0
InodeAt(d, path) == read_inode(d, find_inode_by_path(d, path).ino).inode

\* C4: an fs_read that directly follows an fs_write of the same existing regular
\* file, size n and offset off, with off + n <= MAX_FILE_SIZE, returns n and
\* leaves the n bytes written in the caller's buffer.
C4_WriteThenRead ==
    ( /\ call.op = "read"
      /\ afterWrite
      /\ Resolves(disk, call.path)
      /\ S_ISREG(InodeAt(disk, call.path).mode)
      /\ call.offset + call.size <= MAX_FILE_SIZE )
    => (ret = call.size /\ rbuf = wbuf)

\* the number of set bits among the first n bits of the data bitmap
DataBitsSet(d, n) ==
    Cardinality({i \in 0 .. (n - 1) :
        Bit(d[DATA_BITMAP_START_BLOCK + i \div (8 * BLOCK_SIZE)],
            i % (8 * BLOCK_SIZE)) = 1})
\* the number of clear bits among the INODE_COUNT bits of the inode bitmap
InodeBitsClear(d) ==
    Cardinality({i \in 0 .. (INODE_COUNT - 1) : Bit(d[INODE_BITMAP_BLOCK], i) = 0})

\* C5: fs_statfs returns 0 and reports f_bsize = BLOCK_SIZE, f_blocks =
\* num_data_blocks, f_bfree = f_bavail = num_data_blocks minus the set bits of the
\* data bitmap, f_files = INODE_COUNT, f_ffree = f_favail = the clear bits of the
\* inode bitmap, and f_namemax = MAX_FILENAME_LEN.
C5_Statfs ==
    call.op = "statfs" =>
        /\ ret = 0
        /\ statv.f_bsize = BLOCK_SIZE
        /\ statv.f_namemax = MAX_FILENAME_LEN
        /\ statv.f_files = INODE_COUNT
        /\ statv.f_blocks = sb.num_data_blocks
        /\ statv.f_ffree = InodeBitsClear(disk)
        /\ statv.f_favail = InodeBitsClear(disk)
        /\ statv.f_bfree = sb.num_data_blocks - DataBitsSet(disk, sb.num_data_blocks)
        /\ statv.f_bavail = statv.f_bfree

\* the operations that look their path up
PathOps == {"getattr", "readdir", "read", "write", "truncate", "unlink", "rmdir",
            "rename", "utimens"}

\* C6: a call of getattr, readdir, read, write, truncate, unlink, rmdir, rename
\* (on its source) or utimens with a path that does not resolve returns -ENOENT
\* and leaves the device as it was.
C6_NoEntry ==
    [][(call'.op \in PathOps /\ now' = now /\ ~Resolves(disk, call'.path)) =>
          (ret' = -ENOENT /\ disk' = disk)]_vars

\* C7: a successful fs_getattr reports st_size = inode.size, st_mode = inode.mode,
\* st_blksize = BLOCK_SIZE and st_blocks = ceil(size/512) plus the overhead of the
\* inode's index blocks: more than ceil(size/512) when an indirect pointer is set.
C7_GetattrBlocks ==
    (call.op = "getattr" /\ ret = 0) =>
        LET ino == InodeAt(disk, call.path) IN
        /\ attr.st_size = ino.size
        /\ attr.st_mode = ino.mode
        /\ attr.st_blksize = BLOCK_SIZE
        /\ attr.st_blocks >= ceil_div(ino.size, 512)
        /\ (\E k \in IndirectIdx : ino.indirect[k] # 0) =>
               attr.st_blocks > ceil_div(ino.size, 512)

\* C9: a successful fs_readdir, a stop on a full filler buffer included, sets the
\* atime of the directory's inode on the device to the current time, and changes
\* no other field of it, no other inode, no bitmap and no other block.
C9_ReaddirAtime ==
    [][(call'.op = "readdir" /\ now' = now /\ ret' = 0) =>
          LET n == find_inode_by_path(disk, call'.path).ino IN
          /\ read_inode(disk', n).inode =
                 [read_inode(disk, n).inode EXCEPT !.atime = now]
          /\ \A b \in BlockIdx \ {InodeBlock(n)} : disk'[b] = disk[b]]_vars

RECURSIVE LiveNames(_, _, _)
\* the names of the slots s, s+1, .. that lie below the directory's size and have
\* a nonzero inode_num, in on-disk order
LiveNames(d, inode, s) ==
    IF s * DIR_ENTRY_SIZE >= inode.size THEN <<>>
    ELSE
        LET block_addr == get_directory_block_addr(d, inode, s \div ENTRIES_PER_BLOCK)
            j == s % ENTRIES_PER_BLOCK
        IN  IF block_addr = 0 \/ ~DiskOk(block_addr) THEN LiveNames(d, inode, s + 1)
            ELSE IF d[block_addr][EntryInoWord(j)] = 0 THEN LiveNames(d, inode, s + 1)
            ELSE <<CStr(d[block_addr], EntryNameByte(j))>> \o LiveNames(d, inode, s + 1)

IsPrefix(p, q) == Len(p) <= Len(q) /\ p = SubSeq(q, 1, Len(p))

\* C10: a successful fs_readdir passes filler ".", ".." and then exactly the names
\* of the slots below the directory's size whose inode_num is nonzero, in on-disk
\* order (a prefix of that list when filler reports a full buffer): no slot at or
\* beyond size and no tombstone is emitted.
C10_ReaddirLive ==
    (call.op = "readdir" /\ ret = 0) =>
        LET expected == <<Dot, DotDot>> \o LiveNames(disk, InodeAt(disk, call.path), 0)
        IN  IF full THEN IsPrefix(emitted, expected) ELSE emitted = expected

\* C12: a call during which a disk_read or disk_write fails returns -EIO.
\* fs_mount reads or writes the superblock block, and fs_getattr and fs_readdir
\* of "/" read the block of inode 0.
C12_DeviceFailure ==
    /\ (call.op \in {"mount_format", "mount_load"} /\ SUPERBLOCK_BLOCK \in bad)
           => ret = -EIO
    /\ (call.op \in {"getattr", "readdir"} /\ call.path = <<Slash>>
           /\ InodeBlock(0) \in bad)
           => ret = -EIO

\* a component of the path is longer than MAX_FILENAME_LEN
HasLongName(path) ==
    \E i \in 1 .. Len(path) :
        /\ i + MAX_FILENAME_LEN <= Len(path)
        /\ \A k \in i .. (i + MAX_FILENAME_LEN) : path[k] # Slash

\* C11: resolving a path with a component of more than MAX_FILENAME_LEN (24)
\* characters fails with -ENAMETOOLONG, and a component of exactly 24 characters
\* is looked up normally.
C11_NameTooLong ==
    call.op = "getattr" =>
        /\ HasLongName(call.path) => ret = -ENAMETOOLONG
        /\ (call.path = <<Slash>> \o Name24 /\ img = "tree" /\ ~fmt.done)
               => (ret = 0 /\ attr.st_mode = REGMODE)

\* the slots of the blocks a directory inode maps, numbered in on-disk order
DirSlots(d, inode) ==
    { s \in 0 .. (ceil_div(inode.size, BLOCK_SIZE) * ENTRIES_PER_BLOCK - 1) :
        LET a == get_directory_block_addr(d, inode, s \div ENTRIES_PER_BLOCK)
        IN  a # 0 /\ a \in BlockIdx }
SlotBlock(d, inode, s) == d[get_directory_block_addr(d, inode, s \div ENTRIES_PER_BLOCK)]
SlotIno(d, inode, s) == SlotBlock(d, inode, s)[EntryInoWord(s % ENTRIES_PER_BLOCK)]
SlotName(d, inode, s) ==
    CStr(SlotBlock(d, inode, s), EntryNameByte(s % ENTRIES_PER_BLOCK))
\* the slots of a directory that are live and carry the name
Matches(d, inode, name) ==
    IF ~S_ISDIR(inode.mode) THEN {}
    ELSE { s \in DirSlots(d, inode) :
             SlotIno(d, inode, s) # 0 /\ SlotName(d, inode, s) = name }
Least(S) == CHOOSE s \in S : \A t \in S : s <= t

\* the nonempty maximal slash-free runs of a path, in order
CompStarts(p) ==
    { i \in 1 .. Len(p) : p[i] # Slash /\ (i = 1 \/ p[i - 1] = Slash) }
CompAt(p, i) ==
    SubSeq(p, i, CHOOSE j \in i .. Len(p) :
                     /\ \A k \in i .. j : p[k] # Slash
                     /\ (j = Len(p) \/ p[j + 1] = Slash))
Components(p) ==
    [k \in 1 .. Cardinality(CompStarts(p)) |->
        CompAt(p, CHOOSE i \in CompStarts(p) :
                      Cardinality({j \in CompStarts(p) : j < i}) = k - 1)]

RECURSIVE Reached(_, _, _, _)
\* the inode the components k.. lead to from inode ino, or NoIno: each component
\* must be the name of a live slot of a directory inode
Reached(d, comps, k, ino) ==
    IF k > Len(comps) THEN ino
    ELSE IF ino \notin 0 .. (INODE_COUNT - 1) THEN NoIno
    ELSE LET inode == read_inode(d, ino).inode
             M == Matches(d, inode, comps[k])
         IN  IF M = {} THEN NoIno
             ELSE Reached(d, comps, k + 1, SlotIno(d, inode, Least(M)))

\* C16: "/" resolves to inode 0; a path resolves to what its nonempty components
\* lead to from inode 0, so paths that differ in duplicate or trailing slashes
\* resolve alike; the resolution fails when a component is looked up in an inode
\* that is no directory or that has no live slot of that name.
C16_PathResolution ==
    (call.op = "find_inode_by_path" /\ call.path # <<>> /\ Head(call.path) = Slash) =>
        LET e == Reached(disk, Components(call.path), 1, 0) IN
        /\ call.path = <<Slash>> => (ret = 0 /\ found = 0)
        /\ e = NoIno => (ret # 0 /\ found = NoIno)
        /\ e # NoIno => (ret = 0 /\ found = e)
        /\ \A p \in LookupPaths :
               (Head(p) = Slash /\ Components(p) = Components(call.path)) =>
                   LET r == find_inode_by_path(disk, p) IN
                   /\ r.rc = ret
                   /\ ret = 0 => r.ino = found

\* "//d//f/" resolved to inode 1, as "/d/f" does
C16_Witness ==
    /\ call.op = "find_inode_by_path"
    /\ call.path = <<47, 47, 100, 47, 47, 102, 47>>
    /\ ret = 0
    /\ found = 1

\* C17: find_entry_in_directory succeeds exactly when the directory has a slot
\* with a nonzero inode_num and the searched name, and stores the inode_num of the
\* first such slot in on-disk order; a slot with inode_num 0 never matches, and
\* the lookup in a directory of size 0 fails.
C17_Lookup ==
    call.op = "find_entry_in_directory" =>
        LET inode == read_inode(disk, call.n).inode
            M == Matches(disk, inode, call.path)
        IN  /\ (ret = 0) <=> (M # {})
            /\ ret = 0 => (found = SlotIno(disk, inode, Least(M)) /\ found # 0)
            /\ ret # 0 => found = NoIno
            /\ inode.size = 0 => ret # 0

\* the lookup of "z" in /d, which has two live slots of that name, found the first
C17_Witness ==
    /\ call.op = "find_entry_in_directory"
    /\ call.n = 2
    /\ call.path = <<122>>
    /\ Cardinality(Matches(disk, read_inode(disk, 2).inode, <<122>>)) = 2
    /\ ret = 0
    /\ found = 1

\* C18: get_directory_block_addr returns direct[L] for L < 12; for L >= 12, with
\* k = L - 12, g = k / (BLOCK_SIZE / 4) and o = k % (BLOCK_SIZE / 4), it returns 0
\* when g < 2 and indirect[g] = 0, slot o of the index block indirect[g] when
\* g < 2 and that block is a block of the device, and no block (0) when g >= 2;
\* it leaves the device as it is.
C18_BlockAddr ==
    [][call'.op = "get_directory_block_addr" =>
          LET inode == read_inode(disk, call'.n).inode
              L == call'.idx
              k == L - 12
              g == k \div (BLOCK_SIZE \div 4)
              o == k % (BLOCK_SIZE \div 4)
          IN  /\ disk' = disk
              /\ L < 12 => ret' = inode.direct[L]
              /\ (L >= 12 /\ g < 2 /\ inode.indirect[g] = 0) => ret' = 0
              /\ (L >= 12 /\ g < 2 /\ inode.indirect[g] \in BlockIdx \ {0})
                     => ret' = disk[inode.indirect[g]][o]
              /\ (L >= 12 /\ g >= 2) => ret' = 0]_vars

\* logical block 13 of /a is slot 1 of its first index block
C18_Witness ==
    /\ call.op = "get_directory_block_addr"
    /\ call.n = 1
    /\ call.idx = DIRECT_POINTERS + 1
    /\ read_inode(disk, 1).inode.indirect[0] = 10
    /\ ret = 9

\* the inode numbers alloc_inode scans whose bit is clear
ClearBits(d, s) == { i \in 0 .. (s.num_inodes - 1) : Bit(d[INODE_BITMAP_BLOCK], i) = 0 }

\* C13: when one of the first num_inodes bits of the inode bitmap is clear,
\* alloc_inode returns the least index whose bit is clear, the bitmap on the
\* device has that bit set, and every other bit is as before.
C13_FirstFit ==
    [][(call'.op = "alloc_inode" /\ ClearBits(disk, sb) # {}) =>
          LET i == Least(ClearBits(disk, sb)) IN
          /\ ret' = i
          /\ Bit(disk'[INODE_BITMAP_BLOCK], i) = 1
          /\ \A j \in BitIdx \ {i} :
                 Bit(disk'[INODE_BITMAP_BLOCK], j) = Bit(disk[INODE_BITMAP_BLOCK], j)]_vars

\* alloc_inode filled the hole at 1 that lies below the set bit 2
C13_Witness ==
    /\ call.op = "alloc_inode"
    /\ ret = 1
    /\ Bit(disk[INODE_BITMAP_BLOCK], 1) = 1
    /\ Bit(disk[INODE_BITMAP_BLOCK], 2) = 1

\* C14: when all INODE_COUNT bits of the inode bitmap are set, alloc_inode
\* returns -ENOSPC and leaves the device as it is.
C14_NoSpace ==
    [][(call'.op = "alloc_inode"
          /\ \A i \in 0 .. (INODE_COUNT - 1) : Bit(disk[INODE_BITMAP_BLOCK], i) = 1)
          => (ret' = -ENOSPC /\ disk' = disk)]_vars

\* alloc_inode failed on a device whose INODE_COUNT inodes are all allocated
C14_Witness ==
    /\ call.op = "alloc_inode"
    /\ ret = -ENOSPC
    /\ sb.num_inodes = INODE_COUNT
    /\ \A i \in 0 .. (INODE_COUNT - 1) : Bit(disk[INODE_BITMAP_BLOCK], i) = 1

\* C15: read_inode and write_inode of an n outside 0 .. INODE_COUNT-1, negative
\* or too large, return an error, leave the device as it is, and read_inode
\* leaves the caller's inode as it is.
C15_OutOfRange ==
    [][(call'.op \in {"read_inode", "write_inode"}
          /\ call'.n \notin 0 .. (INODE_COUNT - 1))
          => /\ ret' # 0
             /\ disk' = disk
             /\ call'.op = "read_inode" => ibuf' = CallerInode]_vars

\* write_inode(-1, ..) failed
C15_Witness ==
    /\ call.op = "write_inode"
    /\ call.n = -1
    /\ ret = -1

\* the blocks fs_mount lays out as the inode table
InodeTable ==
    INODE_TABLE_START_BLOCK ..
        (INODE_TABLE_START_BLOCK + FormatSb.inode_table_blocks - 1)

\* C19: for n in 0 .. INODE_COUNT-1, write_inode(n, x) succeeds, read_inode(n)
\* then yields x, every other inode is as before, and so is every block outside
\* the inode table.
C19_WriteInodeFrame ==
    [][(call'.op = "write_inode" /\ call'.n \in 0 .. (INODE_COUNT - 1)) =>
          /\ ret' = 0
          /\ read_inode(disk', call'.n) = [rc |-> 0, inode |-> ibuf']
          /\ \A m \in (0 .. (INODE_COUNT - 1)) \ {call'.n} :
                 read_inode(disk', m) = read_inode(disk, m)
          /\ \A b \in BlockIdx \ InodeTable : disk'[b] = disk[b]]_vars

\* C20: once the device has been formatted, after every call of the host each
\* inode whose bit in the inode bitmap is set has the mode of a regular file or
\* of a directory.
C20_AllocatedMode ==
    fmt.done =>
        \A n \in 0 .. (INODE_COUNT - 1) :
            Bit(disk[INODE_BITMAP_BLOCK], n) = 1 =>
                LET mode == read_inode(disk, n).inode.mode IN
                mode # 0 /\ (S_ISREG(mode) \/ S_ISDIR(mode))

\* a readdir that stamped the root of a formatted device has returned
C20_Witness ==
    /\ fmt.done
    /\ call.op = "readdir"
    /\ call.path = <<Slash>>
    /\ ret = 0
    /\ ~full
    /\ Bit(disk[INODE_BITMAP_BLOCK], 0) = 1
    /\ S_ISDIR(RootOnDisk.mode)

\* the inode numbers whose bit in the inode bitmap of the device d is set
SetBits(d) == { i \in BitIdx : Bit(d[INODE_BITMAP_BLOCK], i) = 1 }
\* the elements of a sequence
Range(q) == { q[k] : k \in 1 .. Len(q) }

\* C21: on a formatted device, over the calls of alloc_inode and of free_inode
\* on indices other than the root's, alloc_inode never returns an index whose
\* bit was set, the indices held are pairwise distinct, the set bits are the
\* held indices and the root's bit 0, and an alloc_inode that directly follows
\* free_inode(i) returns an index <= i.
C21_AllocFree ==
    [][fmt'.done =>
          /\ (call'.op = "alloc_inode" /\ ret' >= 0 /\ fmt.done)
                 => (Bit(disk[INODE_BITMAP_BLOCK], ret') = 0 /\ ret' \notin Range(held))
          /\ \A a, b \in 1 .. Len(held') : a # b => held'[a] # held'[b]
          /\ SetBits(disk') = Range(held') \cup {0}
          /\ (call.op = "free_inode" /\ call'.op = "alloc_inode" /\ fmt.done)
                 => (ret' >= 0 /\ ret' <= call.n)]_vars

\* inodes 1, 2 and 3 were handed out, 1 was freed and handed out again
C21_Witness ==
    /\ fmt.done
    /\ call.op = "alloc_inode"
    /\ ret = 1
    /\ held = <<2, 3, 1>>
    /\ SetBits(disk) = {0, 1, 2, 3}
====
